---- MODULE Spec2Model ----
(***************************************************************************)
(* Light-client call execution (client/light/src/call_executor.rs):        *)
(*   - GenesisCallExecutor, the executor gated on local state availability *)
(*   - prove_execution, run by a node holding the full state               *)
(*   - check_execution_proof, run by the light node on a remote proof      *)
(* The local executor, the state backend, the trie/proof layer and the     *)
(* runtime interpreter are collaborators that live outside this file; they *)
(* are modelled by their contracts.                                        *)
(***************************************************************************)
EXTENDS Integers, Sequences, FiniteSets, TLC

VARIABLES avail, overlay, last

vars == <<avail, overlay, last>>

(* ------------------------------ bounds -------------------------------- *)

NumBlocks == 2

NumKeys == 1

(* ------------------------------ domains ------------------------------- *)

Blocks == 1..NumBlocks

\* well_known_keys::CODE, the storage key of the runtime code
CODE == 0

DataKeys == 1..NumKeys

Keys == {CODE} \cup DataKeys

Absent == "absent"

Unproven == "unproven"

Methods == {"get", "set", "trap"}

\* ExecutionStrategy / ExecutionManager variants
Strategies == {"NativeWhenPossible", "AlwaysWasm"}

Presence == {"None", "Some"}

\* The optional arguments a caller hands to contextual_call:
\* <<native_call, recorder, extensions>>, every argument both absent and
\* present and every two arguments both equal and different.
CallerArgs ==
    {<<"None", "None", "None">>, <<"Some", "None", "Some">>,
     <<"Some", "Some", "None">>, <<"None", "Some", "Some">>}

(* ------------------------------ results ------------------------------- *)

Err(kind, msg) == [kind |-> kind, msg |-> msg]

NoErr == Err("-", <<>>)

NoVal == [none |-> TRUE]

Ok(v) == [ok |-> TRUE, val |-> v, err |-> NoErr]

Fail(e) == [ok |-> FALSE, val |-> NoVal, err |-> e]

NotAvailableOnLightClient == Err("NotAvailableOnLightClient", <<>>)

RuntimeCodeMissing == Err("RuntimeCodeMissing", <<>>)

\* ClientError::Execution(Box<dyn Error>)
Execution(msg) == Err("Execution", msg)

\* Display of an error: its variant followed by its payload
to_string(e) == <<e.kind>> \o e.msg

\* From<Box<dyn sp_state_machine::Error>> for ClientError, applied by `?` and
\* by map_err(Into::into): the state machine's error boxed in Execution
into_client(e) == Execution(to_string(e))

(* ------------------- runtime interpreter (collaborator) --------------- *)

\* One runtime call against a backend (a function from Keys to a value,
\* Absent, or Unproven for a key a proof-restricted backend cannot answer).
\* "get" reads the key named by the call data, "set" buffers a write of it
\* in the overlay, "trap" fails.
Execute(backend, changes, method, call_data) ==
    CASE method = "get" ->
           IF call_data \in changes
             THEN [out |-> Ok([bytes |-> "written"]), reads |-> {}, changes |-> changes]
           ELSE IF backend[call_data] = Unproven
             THEN [out |-> Fail(Err("IncompleteDatabase", <<>>)),
                   reads |-> {call_data}, changes |-> changes]
           ELSE [out |-> Ok([bytes |-> backend[call_data]]),
                 reads |-> {call_data}, changes |-> changes]
      [] method = "set" ->
           [out |-> Ok([bytes |-> "done"]), reads |-> {},
            changes |-> changes \cup {call_data}]
      [] OTHER ->
           [out |-> Fail(Err("Trap", <<>>)), reads |-> {}, changes |-> changes]

(* ---------------------- trie / proof layer (collaborator) -------------- *)

\* The state root committing to a full key/value state: one digest per key.
RootOf(kv) == [i \in 1..(NumKeys + 1) |-> <<i - 1, kv[i - 1]>>]

NoProof == [root |-> <<>>, entries |-> <<>>]

NoBytes == "-"

\* The proof a recording backend extracts: the root node and the entries of
\* the keys that were read.
RecordedProof(kv, reads) == [root |-> RootOf(kv), entries |-> [k \in reads |-> kv[k]]]

\* StorageProof::merge
Merge(p, q) ==
    [root |-> p.root,
     entries |-> [k \in (DOMAIN p.entries) \cup (DOMAIN q.entries) |->
                    IF k \in DOMAIN p.entries THEN p.entries[k] ELSE q.entries[k]]]

\* A read proof of the runtime code key alone.
CodeProof(kv) == RecordedProof(kv, {CODE})

\* StateBackend::as_trie_backend: None for a backend with no trie view.
as_trie_backend(state) ==
    IF state.trie THEN Ok([kv |-> state.kv]) ELSE Fail(NoErr)

\* An entry of a proof is readable under a root only if it hashes into it.
Chains(root, entries, k) ==
    /\ k \in DOMAIN entries
    /\ k + 1 \in DOMAIN root
    /\ root[k + 1] = <<k, entries[k]>>

\* sp_state_machine::create_proof_check_backend: fails unless the proof holds
\* the node of the given root; the backend answers the proven keys only.
create_proof_check_backend(root, proof) ==
    IF proof.root = root /\ root # <<>>
      THEN Ok([kv |-> [k \in Keys |-> IF Chains(root, proof.entries, k)
                                        THEN proof.entries[k] ELSE Unproven]])
      ELSE Fail(Err("InvalidExecutionProof", <<>>))

\* BackendRuntimeCode::runtime_code: the code is read from the backend.
runtime_code(backend) ==
    IF backend.kv[CODE] \in {Unproven, Absent}
      THEN Fail(Err("CodeHashNotFound", <<>>))
      ELSE Ok([code |-> backend.kv[CODE]])

\* sp_state_machine::execution_proof_check_on_trie_backend
execution_proof_check_on_trie_backend(trie_backend, changes, executor, spawn_handle, method, call_data, code) ==
    Execute(trie_backend.kv, changes, method, call_data).out

\* The local (full node) executor's prove_at_trie_state: resolves the runtime
\* code from the trie state, then executes on a recording backend.
LocalProveAtTrieState(trie_state, changes, method, call_data) ==
    LET code == runtime_code(trie_state)
        r == Execute(trie_state.kv, changes, method, call_data)
    IN  IF ~code.ok THEN Fail(Err("RuntimeCode", to_string(code.err)))
        ELSE IF ~r.out.ok THEN Fail(into_client(r.out.err))
        ELSE Ok([bytes |-> r.out.val.bytes,
                 proof |-> RecordedProof(trie_state.kv, r.reads)])

(* ---------------------- local executor (collaborator) ----------------- *)

\* The state the node's store holds for a block.
ChainState(id) ==
    [k \in Keys |-> IF k = CODE THEN "code"
                    ELSE CASE (id + k) % 3 = 0 -> Absent
                           [] (id + k) % 3 = 1 -> "v1"
                           [] OTHER -> "v2"]

\* Local executor's call: a fresh overlay, the block's state.
LocalCall(id, method, call_data, strategy, extensions) ==
    LET r == Execute(ChainState(id), {}, method, call_data)
    IN  IF r.out.ok THEN r.out ELSE Fail(into_client(r.out.err))

\* Whether the native implementation is what produces the result.
UsesNative(manager, native_call) ==
    native_call = "Some" /\ manager # "AlwaysWasm"

\* Local executor's contextual_call: executes on the overlay it is handed and
\* leaves the writes of the execution in it.
LocalContextualCall(at, method, call_data, changes, cache, manager, native_call, recorder, extensions) ==
    LET r == Execute(ChainState(at), changes, method, call_data)
    IN  [out |-> IF r.out.ok
                   THEN Ok([form |-> IF UsesNative(manager, native_call)
                                       THEN "Native" ELSE "Encoded",
                            bytes |-> r.out.val.bytes])
                   ELSE Fail(into_client(r.out.err)),
         changes |-> r.changes]

LocalRuntimeVersion(id) == Ok([version |-> ChainState(id)[CODE]])

(* --------------------------- GenesisCallExecutor ---------------------- *)

\* RemoteBackend::is_local_state_available
is_local_state_available(id) == avail[id]

\* One invocation of an entry point of the local executor, as observed.
Invocation(entry, id, method, call_data, manager, native_call, recorder, extensions, changes, cache) ==
    [entry |-> entry, id |-> id, method |-> method, call_data |-> call_data,
     manager |-> manager, native_call |-> native_call, recorder |-> recorder,
     extensions |-> extensions, changes |-> changes, cache |-> cache]

\* call with the availability gate left out
call_ungated(id, method, call_data, strategy, extensions) ==
    [out |-> LocalCall(id, method, call_data, strategy, extensions),
     oracle |-> <<id>>,
     local |-> <<Invocation("call", id, method, call_data, strategy, "-", "-",
                            extensions, "-", "-")>>]

\* call wrapping the local executor's error the way contextual_call does
call_rewraps_error(id, method, call_data, strategy, extensions) ==
    IF is_local_state_available(id)
      THEN LET r == LocalCall(id, method, call_data, strategy, extensions)
           IN  [out |-> IF r.ok THEN r ELSE Fail(Execution(to_string(r.err))),
                oracle |-> <<id>>,
                local |-> <<Invocation("call", id, method, call_data, strategy, "-",
                                       "-", extensions, "-", "-")>>]
      ELSE [out |-> Fail(NotAvailableOnLightClient), oracle |-> <<id>>, local |-> <<>>]

\* call reusing the answer the store gave to the previous invocation about
\* the same block
call_cached_gate(id, method, call_data, strategy, extensions) ==
    IF (IF last.kind = "gated" /\ last.id = id
          THEN last.answer ELSE is_local_state_available(id))
      THEN [out |-> LocalCall(id, method, call_data, strategy, extensions),
            oracle |-> IF last.kind = "gated" /\ last.id = id THEN <<>> ELSE <<id>>,
            local |-> <<Invocation("call", id, method, call_data, strategy, "-", "-",
                                   extensions, "-", "-")>>]
      ELSE [out |-> Fail(NotAvailableOnLightClient),
            oracle |-> IF last.kind = "gated" /\ last.id = id THEN <<>> ELSE <<id>>,
            local |-> <<>>]

call(id, method, call_data, strategy, extensions) ==
    IF is_local_state_available(id)
      THEN [out |-> LocalCall(id, method, call_data, strategy, extensions),
            oracle |-> <<id>>,
            local |-> <<Invocation("call", id, method, call_data, strategy, "-", "-",
                                   extensions, "-", "-")>>]
      ELSE [out |-> Fail(NotAvailableOnLightClient), oracle |-> <<id>>, local |-> <<>>]

\* contextual_call handing the caller's execution manager to the local executor
contextual_call_honours_hint(at, method, call_data, changes, cache, manager, native_call, recorder, extensions) ==
    IF is_local_state_available(at)
      THEN LET r == LocalContextualCall(at, method, call_data, changes, "None",
                                        manager, native_call, recorder, extensions)
           IN  [out |-> IF r.out.ok THEN r.out
                        ELSE Fail(Execution(to_string(r.out.err))),
                changes |-> r.changes,
                oracle |-> <<at>>,
                local |-> <<Invocation("contextual_call", at, method, call_data,
                                       manager, native_call, recorder,
                                       extensions, changes, "None")>>]
      ELSE [out |-> Fail(NotAvailableOnLightClient), changes |-> changes,
            oracle |-> <<at>>, local |-> <<>>]

\* contextual_call executing on an overlay of its own, dropped on return
contextual_call_own_overlay(at, method, call_data, changes, cache, manager, native_call, recorder, extensions) ==
    IF is_local_state_available(at)
      THEN LET r == LocalContextualCall(at, method, call_data, {}, "None",
                                        "NativeWhenPossible", native_call, recorder,
                                        extensions)
           IN  [out |-> IF r.out.ok THEN r.out
                        ELSE Fail(Execution(to_string(r.out.err))),
                changes |-> changes,
                oracle |-> <<at>>,
                local |-> <<Invocation("contextual_call", at, method, call_data,
                                       "NativeWhenPossible", native_call, recorder,
                                       extensions, {}, "None")>>]
      ELSE [out |-> Fail(NotAvailableOnLightClient), changes |-> changes,
            oracle |-> <<at>>, local |-> <<>>]

contextual_call(at, method, call_data, changes, cache, manager, native_call, recorder, extensions) ==
    IF is_local_state_available(at)
      THEN LET r == LocalContextualCall(at, method, call_data, changes, "None",
                                        "NativeWhenPossible", native_call, recorder,
                                        extensions)
           IN  [out |-> IF r.out.ok THEN r.out
                        ELSE Fail(Execution(to_string(r.out.err))),
                changes |-> r.changes,
                oracle |-> <<at>>,
                local |-> <<Invocation("contextual_call", at, method, call_data,
                                       "NativeWhenPossible", native_call, recorder,
                                       extensions, changes, "None")>>]
      ELSE [out |-> Fail(NotAvailableOnLightClient), changes |-> changes,
            oracle |-> <<at>>, local |-> <<>>]

runtime_version(id) ==
    IF is_local_state_available(id)
      THEN [out |-> LocalRuntimeVersion(id), oracle |-> <<id>>,
            local |-> <<Invocation("runtime_version", id, "-", "-", "-", "-", "-",
                                   "-", "-", "-")>>]
      ELSE [out |-> Fail(NotAvailableOnLightClient), oracle |-> <<id>>, local |-> <<>>]

\* prove_at_trie_state delegating to the local executor
prove_at_trie_state_delegates(state, changes, method, call_data) ==
    LocalProveAtTrieState(state, changes, method, call_data)

prove_at_trie_state(state, changes, method, call_data) ==
    Fail(NotAvailableOnLightClient)

(* ------------------- prove_execution / check_execution_proof ---------- *)

\* E: CallExecutor, the executor handed to prove_execution
Executors == {"GenesisCallExecutor", "LocalCallExecutor"}

ExecutorProveAtTrieState(executor, trie_state, changes, method, call_data) ==
    IF executor = "GenesisCallExecutor"
      THEN prove_at_trie_state(trie_state, changes, method, call_data)
      ELSE LocalProveAtTrieState(trie_state, changes, method, call_data)

ProveOk(bytes, proof) == [ok |-> TRUE, bytes |-> bytes, proof |-> proof, err |-> NoErr]

ProveFail(e) == [ok |-> FALSE, bytes |-> NoBytes, proof |-> NoProof, err |-> e]

\* prove_execution going on with the backend's data when there is no trie view
prove_execution_without_trie(state, executor, method, call_data) ==
    LET r == ExecutorProveAtTrieState(executor, [kv |-> state.kv], {}, method,
                                      call_data)
    IN  [out |-> IF r.ok THEN ProveOk(r.val.bytes, r.val.proof) ELSE ProveFail(r.err),
         steps |-> <<"as_trie_backend", "prove_at_trie_state">>,
         changes |-> <<{}>>]

\* prove_execution executing on an overlay that already holds a write of the
\* key the call names
prove_execution_used_overlay(state, executor, method, call_data) ==
    LET trie_state == as_trie_backend(state)
    IN  IF ~trie_state.ok
          THEN [out |-> ProveFail(into_client(Err("UnableToGenerateProof", <<>>))),
                steps |-> <<"as_trie_backend">>, changes |-> <<>>]
          ELSE LET changes == {call_data}
                   r == ExecutorProveAtTrieState(executor, trie_state.val, changes,
                                                 method, call_data)
               IN  [out |-> IF r.ok THEN ProveOk(r.val.bytes, r.val.proof)
                            ELSE ProveFail(r.err),
                    steps |-> <<"as_trie_backend", "prove_at_trie_state">>,
                    changes |-> <<changes>>]

prove_execution(state, executor, method, call_data) ==
    LET trie_state == as_trie_backend(state)
    IN  IF ~trie_state.ok
          THEN [out |-> ProveFail(into_client(Err("UnableToGenerateProof", <<>>))),
                steps |-> <<"as_trie_backend">>, changes |-> <<>>]
          ELSE LET changes == {}
                   r == ExecutorProveAtTrieState(executor, trie_state.val, changes,
                                                 method, call_data)
               IN  [out |-> IF r.ok THEN ProveOk(r.val.bytes, r.val.proof)
                            ELSE ProveFail(r.err),
                    steps |-> <<"as_trie_backend", "prove_at_trie_state">>,
                    changes |-> <<changes>>]

\* convert_hash: the header's state root as a hash of the proof's hasher
convert_hash(h) == h

\* check_execution_proof executing although the runtime code is not resolved
check_execution_proof_without_code(executor, spawn_handle, request, remote_proof) ==
    LET root == convert_hash(request.header.state_root)
        changes == {}
        trie_backend == create_proof_check_backend(root, remote_proof)
    IN  IF ~trie_backend.ok
          THEN [out |-> Fail(into_client(trie_backend.err)),
                steps |-> <<"create_proof_check_backend">>, changes |-> <<>>]
        ELSE [out |-> LET r == execution_proof_check_on_trie_backend(
                                   trie_backend.val, changes, executor, spawn_handle,
                                   request.method, request.call_data, NoVal)
                      IN  IF r.ok THEN r ELSE Fail(into_client(r.err)),
              steps |-> <<"create_proof_check_backend", "runtime_code",
                          "execution_proof_check_on_trie_backend">>,
              changes |-> <<changes>>]

\* check_execution_proof rebuilding the backend from the root the proof names
\* instead of the root of the request's header
check_execution_proof_proof_root(executor, spawn_handle, request, remote_proof) ==
    LET root == remote_proof.root
        changes == {}
        trie_backend == create_proof_check_backend(root, remote_proof)
        code == runtime_code(trie_backend.val)
    IN  IF ~trie_backend.ok
          THEN [out |-> Fail(into_client(trie_backend.err)),
                steps |-> <<"create_proof_check_backend">>, changes |-> <<>>]
        ELSE IF ~code.ok
          THEN [out |-> Fail(RuntimeCodeMissing),
                steps |-> <<"create_proof_check_backend", "runtime_code">>,
                changes |-> <<>>]
        ELSE [out |-> LET r == execution_proof_check_on_trie_backend(
                                   trie_backend.val, changes, executor, spawn_handle,
                                   request.method, request.call_data, code.val)
                      IN  IF r.ok THEN r ELSE Fail(into_client(r.err)),
              steps |-> <<"create_proof_check_backend", "runtime_code",
                          "execution_proof_check_on_trie_backend">>,
              changes |-> <<changes>>]

check_execution_proof(executor, spawn_handle, request, remote_proof) ==
    LET root == convert_hash(request.header.state_root)
        changes == {}
        trie_backend == create_proof_check_backend(root, remote_proof)
        code == runtime_code(trie_backend.val)
    IN  IF ~trie_backend.ok
          THEN [out |-> Fail(into_client(trie_backend.err)),
                steps |-> <<"create_proof_check_backend">>, changes |-> <<>>]
        ELSE IF ~code.ok
          THEN [out |-> Fail(RuntimeCodeMissing),
                steps |-> <<"create_proof_check_backend", "runtime_code">>,
                changes |-> <<>>]
        ELSE [out |-> LET r == execution_proof_check_on_trie_backend(
                                   trie_backend.val, changes, executor, spawn_handle,
                                   request.method, request.call_data, code.val)
                      IN  IF r.ok THEN r ELSE Fail(into_client(r.err)),
              steps |-> <<"create_proof_check_backend", "runtime_code",
                          "execution_proof_check_on_trie_backend">>,
              changes |-> <<changes>>]

(* ------------------------------- state -------------------------------- *)

\* avail:   the store's answer to is_local_state_available, per block
\* overlay: the OverlayedChanges the caller of contextual_call holds (the
\*          keys with a pending write)
\* last:    the most recent operation, with its arguments, the collaborator
\*          invocations it made and its outcome

\* Whether the previous gated invocation was about the same block and got the
\* opposite answer from the store.
Flipped(id) ==
    /\ last.kind = "gated"
    /\ last.id = id
    /\ last.answer # avail[id]

Gated(op, id, method, call_data, manager, native_call, recorder, extensions, r) ==
    [kind |-> "gated", op |-> op, id |-> id, method |-> method,
     call_data |-> call_data, manager |-> manager, native_call |-> native_call,
     recorder |-> recorder, extensions |-> extensions,
     answer |-> avail[id], flipped |-> Flipped(id),
     oracle |-> r.oracle, local |-> r.local, out |-> r.out]

Init ==
    /\ avail = [b \in Blocks |-> b = 1]
    /\ overlay = {}
    /\ last = [kind |-> "idle"]

Call ==
    \E id \in Blocks, method \in Methods, call_data \in DataKeys,
       strategy \in Strategies, extensions \in Presence :
        /\ last' = Gated("call", id, method, call_data, strategy, "-", "-",
                         extensions,
                         call(id, method, call_data, strategy, extensions))
        /\ UNCHANGED <<avail, overlay>>

ContextualCall ==
    \E at \in Blocks, method \in Methods, call_data \in DataKeys,
       manager \in Strategies, args \in CallerArgs :
        LET native_call == args[1]
            recorder == args[2]
            extensions == args[3]
            r == contextual_call(at, method, call_data, overlay, "Some", manager,
                                 native_call, recorder, extensions)
        IN  /\ overlay' = r.changes
            /\ last' = Gated("contextual_call", at, method, call_data, manager,
                             native_call, recorder, extensions, r)
            /\ UNCHANGED avail

RuntimeVersion ==
    \E id \in Blocks :
        /\ last' = Gated("runtime_version", id, "-", "-", "-", "-", "-", "-",
                         runtime_version(id))
        /\ UNCHANGED <<avail, overlay>>

\* The state of a block is imported into the local store.
ImportState ==
    \E b \in Blocks :
        /\ ~avail[b]
        /\ avail' = [avail EXCEPT ![b] = TRUE]
        /\ UNCHANGED <<overlay, last>>

\* The state of a block is pruned from the local store.
PruneState ==
    \E b \in Blocks :
        /\ avail[b]
        /\ avail' = [avail EXCEPT ![b] = FALSE]
        /\ UNCHANGED <<overlay, last>>

Next ==
    \/ Call
    \/ ContextualCall
    \/ RuntimeVersion
    \/ ImportState
    \/ PruneState

Spec == Init /\ [][Next]_vars

\* The backends prove_execution may be handed for a block: the full state
\* behind a trie view, the same with no runtime code in it, and a backend
\* that has no trie view.
BackendKinds == {"trie", "trie_without_code", "no_trie"}

FullNodeState(b, backend) ==
    [trie |-> backend # "no_trie",
     kv |-> [ChainState(b) EXCEPT ![CODE] = IF backend = "trie_without_code"
                                              THEN Absent ELSE @]]

NoCheck == [none |-> TRUE]

ProveExecution ==
    \E b \in Blocks, backend \in BackendKinds, executor \in Executors,
       method \in Methods, call_data \in Keys :
        LET state == FullNodeState(b, backend)
            r == prove_execution(state, executor, method, call_data)
        IN  /\ last' = [kind |-> "proof", op |-> "prove_execution",
                        state |-> state, executor |-> executor, method |-> method,
                        call_data |-> call_data, out |-> r.out, steps |-> r.steps,
                        changes |-> r.changes, check |-> NoCheck]
            /\ UNCHANGED <<avail, overlay>>

\* The proofs that may reach the light node in answer to the last
\* prove_execution: the proof as generated, the proof merged with a read proof
\* of the runtime code, either with entries missing, the merged proof with
\* its values forged, or no proof at all.
OfferedProofs ==
    LET full == Merge(last.out.proof, CodeProof(last.state.kv))
    IN  {[root |-> full.root, entries |-> [k \in K |-> full.entries[k]]] :
           K \in SUBSET (DOMAIN full.entries)}
        \cup {[root |-> full.root,
               entries |-> [k \in DOMAIN full.entries |-> "forged"]]}
        \cup {NoProof}

\* The calls a request may name: the call that was proved, and the calls
\* that differ from it in the method or in the call data.
RequestedCalls ==
    {<<m, last.call_data>> : m \in Methods} \cup {<<last.method, d>> : d \in Keys}

\* The light node checks the answer to a prove_execution that returned a proof.
CheckExecutionProof ==
    /\ last.kind = "proof"
    /\ last.out.ok
    /\ \E b \in Blocks, c \in RequestedCalls, remote_proof \in OfferedProofs :
        LET request == [header |-> [state_root |-> RootOf(ChainState(b))],
                        method |-> c[1], call_data |-> c[2]]
            r == check_execution_proof("wasm", "spawn", request, remote_proof)
        IN  /\ last' = [last EXCEPT !.op = "check_execution_proof",
                                    !.check = [request |-> request,
                                               remote_proof |-> remote_proof,
                                               out |-> r.out, steps |-> r.steps,
                                               changes |-> r.changes]]
            /\ UNCHANGED <<avail, overlay>>

ProofNext ==
    \/ ProveExecution
    \/ CheckExecutionProof

ProofSpec == Init /\ [][ProofNext]_vars

\* One caller using the executor and the proof functions with its overlay,
\* on a store whose availability does not change.
OverlayNext ==
    \/ Call
    \/ ContextualCall
    \/ RuntimeVersion
    \/ ProveExecution
    \/ CheckExecutionProof

OverlaySpec == Init /\ [][OverlayNext]_vars

(* ------------------------------ properties ---------------------------- *)

Delegated == last.local # <<>>

\* C1: for a block whose local state the store reports as not available,
\* call, contextual_call and runtime_version return NotAvailableOnLightClient
\* and invoke no entry point of the local executor, whatever the method, call
\* data, strategy, execution manager and extensions.
C1_NotAvailableFailsClosed ==
    (last.kind = "gated" /\ ~last.answer) =>
        /\ last.out = Fail(NotAvailableOnLightClient)
        /\ last.local = <<>>

C1_Witness ==
    /\ last.kind = "gated"
    /\ ~last.answer
    /\ last.op = "contextual_call"
    /\ last.manager = "AlwaysWasm"
    /\ last.out.err = NotAvailableOnLightClient

\* C2: for a block whose local state is available, call invokes the local
\* executor's call exactly once with its own five arguments and returns that
\* outcome as it is, result or error.
C2_CallDelegatesVerbatim ==
    (last.kind = "gated" /\ last.op = "call" /\ last.answer) =>
        /\ last.local = <<Invocation("call", last.id, last.method, last.call_data,
                                     last.manager, "-", "-", last.extensions,
                                     "-", "-")>>
        /\ last.out = LocalCall(last.id, last.method, last.call_data, last.manager,
                                last.extensions)

C2_Witness ==
    /\ last.kind = "gated"
    /\ last.op = "call"
    /\ last.answer
    /\ last.method = "trap"
    /\ last.out = Fail(Execution(<<"Trap">>))

\* C3: when contextual_call delegates, the execution manager it hands to the
\* local executor is NativeWhenPossible whatever the caller's hint, and the
\* outcome is the one the local executor gives under NativeWhenPossible.
C3_ContextualCallForcesNative ==
    (last.kind = "gated" /\ last.op = "contextual_call" /\ last.answer) =>
        /\ Len(last.local) = 1
        /\ last.local[1].manager = "NativeWhenPossible"
        /\ LET r == LocalContextualCall(last.id, last.method, last.call_data,
                                        last.local[1].changes, "None",
                                        "NativeWhenPossible", last.native_call,
                                        last.recorder, last.extensions).out
           IN  last.out = IF r.ok THEN r ELSE Fail(Execution(to_string(r.err)))

C3_Witness ==
    /\ last.kind = "gated"
    /\ last.op = "contextual_call"
    /\ last.answer
    /\ last.manager = "AlwaysWasm"
    /\ last.native_call = "Some"
    /\ last.out.ok
    /\ last.out.val.form = "Native"

\* C4: GenesisCallExecutor's prove_at_trie_state returns
\* NotAvailableOnLightClient for every input, also for the state of a block
\* that is locally available, so prove_execution with a GenesisCallExecutor
\* never returns a result and a proof.
C4_GenesisNeverProves ==
    /\ \A b \in Blocks, backend \in BackendKinds, changes \in SUBSET Keys,
          method \in Methods, call_data \in Keys :
          prove_at_trie_state([kv |-> FullNodeState(b, backend).kv], changes, method,
                              call_data) = Fail(NotAvailableOnLightClient)
    /\ (last.kind = "proof" /\ last.executor = "GenesisCallExecutor") =>
          /\ ~last.out.ok
          /\ last.out.bytes = NoBytes
          /\ last.out.proof = NoProof
          /\ last.state.trie => last.out.err = NotAvailableOnLightClient

C4_Witness ==
    /\ last.kind = "proof"
    /\ last.op = "prove_execution"
    /\ last.executor = "GenesisCallExecutor"
    /\ last.state = FullNodeState(1, "trie")
    /\ avail[1]
    /\ last.steps = <<"as_trie_backend", "prove_at_trie_state">>
    /\ last.out.err = NotAvailableOnLightClient

\* The last operation checked a proof against the root of the state that
\* prove_execution proved on, for the same method and call data, and the
\* proved execution read only keys present in that state.
RoundTrip ==
    /\ last.kind = "proof"
    /\ last.op = "check_execution_proof"
    /\ last.out.ok
    /\ last.check.request.header.state_root = RootOf(last.state.kv)
    /\ last.check.request.method = last.method
    /\ last.check.request.call_data = last.call_data
    /\ \A k \in DOMAIN last.out.proof.entries : last.state.kv[k] # Absent

CheckedBackend ==
    create_proof_check_backend(convert_hash(last.check.request.header.state_root),
                               last.check.remote_proof)

\* C6: when the proof-restricted backend is rebuilt but the runtime code
\* cannot be resolved from it, check_execution_proof returns
\* RuntimeCodeMissing and never starts the execution.
C6_MissingCodeStopsCheck ==
    (/\ last.kind = "proof"
     /\ last.op = "check_execution_proof"
     /\ CheckedBackend.ok
     /\ ~runtime_code(CheckedBackend.val).ok) =>
        /\ last.check.out = Fail(RuntimeCodeMissing)
        /\ last.check.steps = <<"create_proof_check_backend", "runtime_code">>

C6_Witness ==
    /\ last.kind = "proof"
    /\ last.op = "check_execution_proof"
    /\ CheckedBackend.ok
    /\ CODE \notin DOMAIN last.check.remote_proof.entries
    /\ last.check.out = Fail(RuntimeCodeMissing)

\* C7: when rebuilding the proof-restricted backend from the header's state
\* root and the proof fails, check_execution_proof returns that failure, no
\* result, and neither resolves the runtime code nor executes.
C7_FailedReconstructionStopsCheck ==
    (/\ last.kind = "proof"
     /\ last.op = "check_execution_proof"
     /\ ~CheckedBackend.ok) =>
        /\ last.check.out = Fail(into_client(CheckedBackend.err))
        /\ last.check.steps = <<"create_proof_check_backend">>

C7_Witness ==
    /\ last.kind = "proof"
    /\ last.op = "check_execution_proof"
    /\ last.check.remote_proof = Merge(last.out.proof, CodeProof(last.state.kv))
    /\ last.out.ok
    /\ last.check.request.header.state_root # last.check.remote_proof.root
    /\ last.check.out = Fail(Execution(<<"InvalidExecutionProof">>))

\* C8: prove_execution fails with UnableToGenerateProof when the backend has
\* no trie view, without invoking the executor's prove_at_trie_state; it
\* returns the result and the proof together or an error with neither, and an
\* executor error is returned as it is.
C8_ProveExecutionOutcome ==
    (last.kind = "proof") =>
        /\ ~last.state.trie =>
              /\ last.out.err = Execution(<<"UnableToGenerateProof">>)
              /\ last.steps = <<"as_trie_backend">>
        /\ last.out.ok =>
              /\ last.out.bytes # NoBytes
              /\ last.out.proof # NoProof
              /\ last.out.err = NoErr
        /\ ~last.out.ok =>
              /\ last.out.bytes = NoBytes
              /\ last.out.proof = NoProof
              /\ last.out.err # NoErr
        /\ last.state.trie =>
              LET r == ExecutorProveAtTrieState(last.executor, [kv |-> last.state.kv],
                                                {}, last.method, last.call_data)
              IN  /\ last.out.ok = r.ok
                  /\ ~r.ok => last.out.err = r.err

C8_Witness ==
    /\ last.kind = "proof"
    /\ last.op = "prove_execution"
    /\ ~last.state.trie
    /\ last.executor = "LocalCallExecutor"
    /\ last.out.err = Execution(<<"UnableToGenerateProof">>)

\* C9: every call, contextual_call and runtime_version asks the store once
\* whether the block's state is available, and delegates exactly when the
\* store's answer at that invocation is yes, whatever it answered before.
C9_GateEvaluatedFresh ==
    (last.kind = "gated") =>
        /\ last.oracle = <<last.id>>
        /\ Delegated <=> last.answer
        /\ (last.out = Fail(NotAvailableOnLightClient)) <=> ~last.answer

C9_Witness ==
    /\ last.kind = "gated"
    /\ last.op = "call"
    /\ last.flipped
    /\ ~last.answer
    /\ last.out = Fail(NotAvailableOnLightClient)

\* C10 as stated: every call executes on an overlay of its own, and no
\* pending write of a call remains in the caller's overlay when it returns.
C10_OverlayPerCallAsStated ==
    /\ overlay = {}
    /\ (last.kind = "gated" /\ last.op = "contextual_call" /\ Delegated) =>
          last.local[1].changes = {}

\* C10 amended: prove_execution and check_execution_proof execute on an
\* empty overlay of their own and leave the caller's overlay alone, call
\* and runtime_version hand no overlay on, and contextual_call hands the
\* caller's overlay to the local executor, whose writes stay in it.
C10_OverlayOwnership ==
    [][/\ last'.kind = "proof" =>
            /\ overlay' = overlay
            /\ last'.changes \in {<<>>, <<{}>>}
            /\ last'.op = "check_execution_proof" =>
                  last'.check.changes \in {<<>>, <<{}>>}
       /\ (last'.kind = "gated" /\ last'.op # "contextual_call") =>
            /\ overlay' = overlay
            /\ \A i \in DOMAIN last'.local : last'.local[i].changes = "-"
       /\ (last'.kind = "gated" /\ last'.op = "contextual_call") =>
            IF last'.local = <<>>
              THEN overlay' = overlay
              ELSE /\ last'.local[1].changes = overlay
                   /\ overlay' = Execute(ChainState(last'.id), overlay,
                                         last'.method, last'.call_data).changes]_vars

C10_Witness ==
    /\ last.kind = "gated"
    /\ last.op = "contextual_call"
    /\ last.method = "get"
    /\ last.local # <<>>
    /\ last.local[1].changes = {last.call_data}
    /\ overlay = {last.call_data}
    /\ last.out.ok
    /\ last.out.val.bytes = "written"

====
